---- MODULE Spec2Model ----
(***************************************************************************)
(* contree: the merged filesystem tree of a Docker image archive.          *)
(*                                                                         *)
(* Strings are sequences of one-character strings, so that the path        *)
(* algebra (split, trim, prefix tests) is computed as the code computes    *)
(* it.  The tree (Node with its nested HashMap of children) is a function  *)
(* from node paths (sequences of basenames, <<>> being the root) to        *)
(* NodeMetadata records; a node's children are the paths one longer        *)
(* that extend it.  Option<T> is a sequence: <<>> is None, <<x>> Some(x).  *)
(***************************************************************************)
EXTENDS Integers, Sequences, FiniteSets, TLC

VARIABLES
    outer,          \* the outer archive: the entries its iterator yields
    oi,             \* entries of the outer archive consumed so far
    manifest_bytes, \* Option: the buffered manifest.json
    layer_paths,    \* HashMap layer name -> temp path
    scratch,        \* the temp directory: temp path -> the staged blob
    layers,         \* the manifest's layer names, in merge order
    li,             \* layers completely applied so far
    layer_hash,     \* Option: the tag of the layer being applied
    ei,             \* items of the current layer stream consumed so far
    root,           \* the tree
    pc,             \* where process_archive / main stands
    err,            \* the error the run ended with ("" while there is none)
    show_layers,    \* cli.layers
    rendered,       \* Option: the tree main handed to render_tree
    applied,        \* history: stream items consumed in the whole run
    prev,           \* history: the tree before the last stream item
    last,           \* history: the last stream item consumed
    contrib,        \* history: node path -> index of the layer whose entry last wrote it
    snaps,          \* history: the tree as each completed layer left it
    call            \* a direct call of the path functions or tree primitives: fn, arg, out

vars == <<outer, oi, manifest_bytes, layer_paths, scratch, layers, li,
          layer_hash, ei, root, pc, err, show_layers, rendered, applied,
          prev, last, contrib, snaps, call>>

(***************************************************************************)
(* Strings                                                                 *)
(***************************************************************************)
SLASH == "/"
DOT == <<".">>
EMPTY == <<>>

StartsWith(s, pre) ==
    Len(pre) <= Len(s) /\ SubSeq(s, 1, Len(pre)) = pre

EndsWith(s, suf) ==
    Len(suf) <= Len(s) /\ SubSeq(s, Len(s) - Len(suf) + 1, Len(s)) = suf

\* str::trim_end_matches(char)
RECURSIVE TrimEndChar(_, _)
TrimEndChar(s, c) ==
    IF Len(s) > 0 /\ s[Len(s)] = c THEN TrimEndChar(SubSeq(s, 1, Len(s) - 1), c) ELSE s

\* str::trim_end_matches(&str): the suffix is removed as often as it matches
RECURSIVE TrimEndStr(_, _)
TrimEndStr(s, suf) ==
    IF Len(suf) > 0 /\ EndsWith(s, suf)
    THEN TrimEndStr(SubSeq(s, 1, Len(s) - Len(suf)), suf) ELSE s

\* str::trim_start_matches(&str): the prefix is removed as often as it matches
RECURSIVE TrimStartStr(_, _)
TrimStartStr(s, pre) ==
    IF Len(pre) > 0 /\ StartsWith(s, pre)
    THEN TrimStartStr(SubSeq(s, Len(pre) + 1, Len(s)), pre) ELSE s

\* str::rfind(char): the last index holding c, 0 when there is none
RFind(s, c) ==
    LET hits == {i \in 1..Len(s) : s[i] = c}
    IN  IF hits = {} THEN 0 ELSE CHOOSE i \in hits : \A j \in hits : j <= i

\* str::split(char): every segment, the empty ones included
RECURSIVE Split(_, _)
Split(s, c) ==
    LET hits == {i \in 1..Len(s) : s[i] = c}
    IN  IF hits = {} THEN <<s>>
        ELSE LET i == CHOOSE k \in hits : \A j \in hits : k <= j
             IN  <<SubSeq(s, 1, i - 1)>> \o Split(SubSeq(s, i + 1, Len(s)), c)

\* path.rsplit('/').next().unwrap_or(path): the text after the last '/'
LastSegment(s) == SubSeq(s, RFind(s, SLASH) + 1, Len(s))

\* path.split('/').filter(|p| !p.is_empty() && *p != ".")
Parts(path) == SelectSeq(Split(path, SLASH), LAMBDA p : p /= EMPTY /\ p /= DOT)

\* format!("{}/{}", a, b)
JoinSlash(a, b) == a \o <<SLASH>> \o b

(***************************************************************************)
(* utils.rs                                                                *)
(***************************************************************************)
\* mutant: trailing slashes are not dropped
split_path_untrimmed(path) ==
    LET pos == RFind(path, SLASH)
    IN  IF pos /= 0 THEN <<SubSeq(path, 1, pos - 1), SubSeq(path, pos + 1, Len(path))>>
        ELSE <<EMPTY, path>>

split_path(path) ==
    LET p == TrimEndChar(path, SLASH)
        pos == RFind(p, SLASH)
    IN  IF pos /= 0 THEN <<SubSeq(p, 1, pos - 1), SubSeq(p, pos + 1, Len(p))>>
        ELSE <<EMPTY, p>>

(***************************************************************************)
(* whiteout.rs                                                             *)
(***************************************************************************)
WHITEOUT_PREFIX == <<".", "w", "h", ".">>
OPAQUE_WHITEOUT == <<".", "w", "h", ".", ".", "w", "h", ".", ".", "o", "p", "q">>

\* mutant: the prefix is looked for at the start of the path, not of the basename
is_whiteout_whole_path(path) == StartsWith(path, WHITEOUT_PREFIX)

is_whiteout(path) == StartsWith(LastSegment(path), WHITEOUT_PREFIX)

is_opaque(path) == LastSegment(path) = OPAQUE_WHITEOUT

\* mutant: the directory component is dropped
whiteout_target_basename_only(path) ==
    LET basename == split_path(path)[2]
    IN  IF StartsWith(basename, WHITEOUT_PREFIX)
        THEN SubSeq(basename, Len(WHITEOUT_PREFIX) + 1, Len(basename))
        ELSE basename

whiteout_target(path) ==
    LET dir_path == split_path(path)[1]
        basename == split_path(path)[2]
        target_basename ==
            IF StartsWith(basename, WHITEOUT_PREFIX)
            THEN SubSeq(basename, Len(WHITEOUT_PREFIX) + 1, Len(basename))
            ELSE basename
    IN  IF dir_path = EMPTY THEN target_basename
        ELSE JoinSlash(dir_path, target_basename)

opaque_dir(path) == split_path(path)[1]

(***************************************************************************)
(* tree.rs                                                                 *)
(***************************************************************************)
None == <<>>
Some(x) == <<x>>

DefaultMode == 493      \* 0o755

IsPrefix(p, q) == Len(p) <= Len(q) /\ SubSeq(q, 1, Len(p)) = p

\* the paths of the subtree rooted at p, p included
Subtree(r, p) == {q \in DOMAIN r : IsPrefix(p, q)}

\* the paths strictly below p
Below(r, p) == {q \in DOMAIN r : IsPrefix(p, q) /\ q /= p}

Restrict(r, D) == [q \in D |-> r[q]]

\* mutant: the node is created with the file flag set
new_dir_flagged_file(mode, uid, gid) ==
    [is_file |-> TRUE, is_symlink |-> FALSE, symlink_target |-> None,
     hardlink_target |-> None, mode |-> mode, uid |-> uid, gid |-> gid,
     layer_hash |-> None]

new_dir(mode, uid, gid) ==
    [is_file |-> FALSE, is_symlink |-> FALSE, symlink_target |-> None,
     hardlink_target |-> None, mode |-> mode, uid |-> uid, gid |-> gid,
     layer_hash |-> None]

new_file(mode, uid, gid) ==
    [is_file |-> TRUE, is_symlink |-> FALSE, symlink_target |-> None,
     hardlink_target |-> None, mode |-> mode, uid |-> uid, gid |-> gid,
     layer_hash |-> None]

\* mutant: the node is inserted whether or not the entry is occupied
or_insert_overwriting(r, p, node) == (p :> node) @@ r

\* children.entry(part).or_insert_with(|| node) at the node path p
or_insert(r, p, node) == IF p \in DOMAIN r THEN r ELSE (p :> node) @@ r

\* mutant: the new node takes the old node's place and keeps its children
insert_keeping_children(r, p, node) == (p :> node) @@ r

\* children.insert(basename, node) at the node path p: the old node goes with its subtree
insert(r, p, node) == (p :> node) @@ Restrict(r, DOMAIN r \ Subtree(r, p))

\* children.remove(basename) at the node path p
remove_child(r, p) == Restrict(r, DOMAIN r \ Subtree(r, p))

\* mutant: clearing leaves only the node and its ancestors
clear_children_and_others(r, p) == Restrict(r, {q \in DOMAIN r : IsPrefix(q, p)})

\* children.clear() of the node at p
clear_children(r, p) == Restrict(r, DOMAIN r \ Below(r, p))

\* mutant: a missing component gets the default metadata, an existing one is re-stamped
RECURSIVE ensure_loop_stamping_existing(_, _, _, _, _)
ensure_loop_stamping_existing(r, cur, parts, node, lh) ==
    IF parts = <<>> THEN r
    ELSE LET nxt == Append(cur, Head(parts))
             r1 == IF nxt \in DOMAIN r
                   THEN [r EXCEPT ![nxt].mode = node.mode, ![nxt].uid = node.uid,
                                  ![nxt].gid = node.gid]
                   ELSE (nxt :> new_dir(493, 0, 0)) @@ r
             r2 == [r1 EXCEPT ![nxt].layer_hash = lh]
         IN  ensure_loop_stamping_existing(r2, nxt, Tail(parts), node, lh)

\* the loop of ensure_path: descend from cur, creating what is missing, tagging every step
RECURSIVE ensure_loop(_, _, _, _, _)
ensure_loop(r, cur, parts, node, lh) ==
    IF parts = <<>> THEN r
    ELSE LET nxt == Append(cur, Head(parts))
             r1 == or_insert(r, nxt, node)
             r2 == [r1 EXCEPT ![nxt].layer_hash = lh]
         IN  ensure_loop(r2, nxt, Tail(parts), node, lh)

\* mutant: the path "." stamps the node it is called on
ensure_path_stamping_self(r, path, mode, uid, gid, lh) ==
    IF path = EMPTY THEN r
    ELSE IF path = DOT
    THEN [r EXCEPT ![<<>>].mode = mode, ![<<>>].uid = uid, ![<<>>].gid = gid,
                   ![<<>>].layer_hash = lh]
    ELSE ensure_loop(r, <<>>, Parts(path), new_dir(mode, uid, gid), lh)

ensure_path(r, path, mode, uid, gid, lh) ==
    IF path = EMPTY \/ path = DOT THEN r
    ELSE ensure_loop(r, <<>>, Parts(path), new_dir(mode, uid, gid), lh)

\* the "navigate to parent directory" loop of put_file
RECURSIVE navigate_or_insert(_, _, _)
navigate_or_insert(r, cur, parts) ==
    IF parts = <<>> THEN r
    ELSE LET nxt == Append(cur, Head(parts))
         IN  navigate_or_insert(or_insert(r, nxt, new_dir(DefaultMode, 0, 0)), nxt, Tail(parts))

\* mutant: the link name is normalised like an entry path before it is stored
put_file_trimming_link(r, path, mode, uid, gid, is_symlink, link_target, lh) ==
    LET dir_path == split_path(path)[1]
        basename == split_path(path)[2]
        r1 == IF dir_path /= EMPTY THEN ensure_path(r, dir_path, DefaultMode, 0, 0, lh) ELSE r
        parent == IF dir_path /= EMPTY THEN Parts(dir_path) ELSE <<>>
        r2 == IF dir_path /= EMPTY THEN navigate_or_insert(r1, <<>>, parent) ELSE r1
        trimmed == IF link_target = None THEN None
                   ELSE Some(TrimEndChar(TrimStartStr(link_target[1], <<".", SLASH>>), SLASH))
        file_node == [new_file(mode, uid, gid) EXCEPT !.is_symlink = is_symlink,
                                                      !.symlink_target = trimmed,
                                                      !.layer_hash = lh]
    IN  insert(r2, Append(parent, basename), file_node)

put_file(r, path, mode, uid, gid, is_symlink, link_target, lh) ==
    LET dir_path == split_path(path)[1]
        basename == split_path(path)[2]
        r1 == IF dir_path /= EMPTY THEN ensure_path(r, dir_path, DefaultMode, 0, 0, lh) ELSE r
        parent == IF dir_path /= EMPTY THEN Parts(dir_path) ELSE <<>>
        r2 == IF dir_path /= EMPTY THEN navigate_or_insert(r1, <<>>, parent) ELSE r1
        file_node == [new_file(mode, uid, gid) EXCEPT !.is_symlink = is_symlink,
                                                      !.symlink_target = link_target,
                                                      !.layer_hash = lh]
    IN  insert(r2, Append(parent, basename), file_node)

\* get_mut along parts: the node path reached, or None when a component is missing
RECURSIVE navigate(_, _, _)
navigate(r, cur, parts) ==
    IF parts = <<>> THEN Some(cur)
    ELSE LET nxt == Append(cur, Head(parts))
         IN  IF nxt \in DOMAIN r THEN navigate(r, nxt, Tail(parts)) ELSE None

\* mutant: the display string written is the node's own path, not the link name
set_hardlink_target_own_path(r, path, target) ==
    LET dir_path == split_path(path)[1]
        basename == split_path(path)[2]
        parent == IF dir_path /= EMPTY THEN navigate(r, <<>>, Parts(dir_path)) ELSE Some(<<>>)
    IN  IF parent = None THEN [ok |-> FALSE, root |-> r]
        ELSE LET p == Append(parent[1], basename)
             IN  IF p \notin DOMAIN r THEN [ok |-> FALSE, root |-> r]
                 ELSE [ok |-> TRUE, root |-> [r EXCEPT ![p].hardlink_target = Some(path)]]

\* mutant: the link is structural: the node the link name points at gets the string too
set_hardlink_target_aliasing(r, path, target) ==
    LET dir_path == split_path(path)[1]
        basename == split_path(path)[2]
        parent == IF dir_path /= EMPTY THEN navigate(r, <<>>, Parts(dir_path)) ELSE Some(<<>>)
    IN  IF parent = None THEN [ok |-> FALSE, root |-> r]
        ELSE LET p == Append(parent[1], basename)
                 t == Parts(target)
             IN  IF p \notin DOMAIN r \/ t \notin DOMAIN r THEN [ok |-> FALSE, root |-> r]
                 ELSE [ok |-> TRUE,
                       root |-> [r EXCEPT ![p].hardlink_target = Some(target),
                                          ![t].hardlink_target = Some(target)]]

\* the result holds ok (Ok(()) or Err) and the tree afterwards
set_hardlink_target(r, path, target) ==
    LET dir_path == split_path(path)[1]
        basename == split_path(path)[2]
        parent == IF dir_path /= EMPTY THEN navigate(r, <<>>, Parts(dir_path)) ELSE Some(<<>>)
    IN  IF parent = None THEN [ok |-> FALSE, root |-> r]
        ELSE LET p == Append(parent[1], basename)
             IN  IF p \notin DOMAIN r THEN [ok |-> FALSE, root |-> r]
                 ELSE [ok |-> TRUE, root |-> [r EXCEPT ![p].hardlink_target = Some(target)]]

\* mutant: the directory component is dropped, the basename is removed at the root
remove_at_root(r, path) == remove_child(r, <<split_path(path)[2]>>)

remove(r, path) ==
    LET dir_path == split_path(path)[1]
        basename == split_path(path)[2]
        parent == IF dir_path /= EMPTY THEN navigate(r, <<>>, Parts(dir_path)) ELSE Some(<<>>)
    IN  IF parent = None THEN r
        ELSE remove_child(r, Append(parent[1], basename))

\* mutant: a directory that is not there makes the call clear the node it is called on
mark_opaque_clearing_self_when_absent(r, path) ==
    IF path = EMPTY \/ path = DOT THEN clear_children(r, <<>>)
    ELSE LET current == navigate(r, <<>>, Parts(path))
         IN  IF current = None THEN clear_children(r, <<>>) ELSE clear_children(r, current[1])

mark_opaque(r, path) ==
    IF path = EMPTY \/ path = DOT THEN clear_children(r, <<>>)
    ELSE LET current == navigate(r, <<>>, Parts(path))
         IN  IF current = None THEN r ELSE clear_children(r, current[1])

(***************************************************************************)
(* archive.rs: one entry of a layer stream                                 *)
(*                                                                         *)
(* A stream item is what the tar iterator yields: bad names the one read   *)
(* that fails ("iter": the iterator yields Err; "path", "mode", "uid",     *)
(* "gid", "link": that accessor returns Err), "none" when all succeed.     *)
(* to_string_lossy is the identity on the (valid UTF-8) strings used here. *)
(***************************************************************************)
DOT_SLASH == <<".", "/">>

\* mutant: the hard-link branch creates the node before it reads the link name
apply_entry_link_read_late(r, e, lh) ==
    IF e.bad = "path" THEN [ok |-> FALSE, root |-> r]
    ELSE LET normalized_path == TrimEndChar(TrimStartStr(e.path, DOT_SLASH), SLASH)
         IN
    IF normalized_path = EMPTY THEN [ok |-> TRUE, root |-> r]
    ELSE IF e.bad \in {"mode", "uid", "gid"} THEN [ok |-> FALSE, root |-> r]
    ELSE IF is_whiteout(normalized_path)
         THEN IF is_opaque(normalized_path)
              THEN [ok |-> TRUE, root |-> mark_opaque(r, opaque_dir(normalized_path))]
              ELSE [ok |-> TRUE, root |-> remove(r, whiteout_target(normalized_path))]
    ELSE CASE e.etype = "Directory" ->
                [ok |-> TRUE,
                 root |-> ensure_path(r, normalized_path, e.mode, e.uid, e.gid, lh)]
           [] e.etype = "Regular" ->
                [ok |-> TRUE,
                 root |-> put_file(r, normalized_path, e.mode, e.uid, e.gid, FALSE, None, lh)]
           [] e.etype = "Symlink" ->
                IF e.bad = "link" THEN [ok |-> FALSE, root |-> r]
                ELSE [ok |-> TRUE,
                      root |-> put_file(r, normalized_path, e.mode, e.uid, e.gid,
                                        TRUE, e.link, lh)]
           [] e.etype = "Link" ->
                LET r1 == put_file(r, normalized_path, e.mode, e.uid, e.gid,
                                   FALSE, None, lh)
                IN  IF e.bad = "link" THEN [ok |-> FALSE, root |-> r1]
                    ELSE IF e.link /= None
                    THEN [ok |-> TRUE,
                          root |-> set_hardlink_target(r1, normalized_path, e.link[1]).root]
                    ELSE [ok |-> TRUE, root |-> r1]
           [] OTHER -> [ok |-> TRUE, root |-> r]

\* the result holds ok (Ok(()) or Err) and the tree as the call leaves it
apply_entry(r, e, lh) ==
    IF e.bad = "path" THEN [ok |-> FALSE, root |-> r]
    ELSE LET normalized_path == TrimEndChar(TrimStartStr(e.path, DOT_SLASH), SLASH)
         IN
    IF normalized_path = EMPTY THEN [ok |-> TRUE, root |-> r]
    ELSE IF e.bad \in {"mode", "uid", "gid"} THEN [ok |-> FALSE, root |-> r]
    ELSE IF is_whiteout(normalized_path)
         THEN IF is_opaque(normalized_path)
              THEN [ok |-> TRUE, root |-> mark_opaque(r, opaque_dir(normalized_path))]
              ELSE [ok |-> TRUE, root |-> remove(r, whiteout_target(normalized_path))]
    ELSE CASE e.etype = "Directory" ->
                [ok |-> TRUE,
                 root |-> ensure_path(r, normalized_path, e.mode, e.uid, e.gid, lh)]
           [] e.etype = "Regular" ->
                [ok |-> TRUE,
                 root |-> put_file(r, normalized_path, e.mode, e.uid, e.gid, FALSE, None, lh)]
           [] e.etype = "Symlink" ->
                IF e.bad = "link" THEN [ok |-> FALSE, root |-> r]
                ELSE [ok |-> TRUE,
                      root |-> put_file(r, normalized_path, e.mode, e.uid, e.gid,
                                        TRUE, e.link, lh)]
           [] e.etype = "Link" ->
                IF e.bad = "link" THEN [ok |-> FALSE, root |-> r]
                ELSE LET r1 == put_file(r, normalized_path, e.mode, e.uid, e.gid,
                                        FALSE, None, lh)
                     IN  IF e.link /= None
                         THEN [ok |-> TRUE,
                               root |-> set_hardlink_target(r1, normalized_path, e.link[1]).root]
                         ELSE [ok |-> TRUE, root |-> r1]
           [] OTHER -> [ok |-> TRUE, root |-> r]

\* one iteration of the loop of process_layer_entries: the tree afterwards
process_item(r, e, lh) ==
    IF e.bad = "iter" THEN r ELSE apply_entry(r, e, lh).root

HashLen == 7

LAYER_TAR == <<"/", "l", "a", "y", "e", "r", ".", "t", "a", "r">>
TAR_GZ == <<".", "t", "a", "r", ".", "g", "z">>
TAR == <<".", "t", "a", "r">>
GZ == <<".", "g", "z">>

\* hash.chars().take(length)
Take(s, n) == SubSeq(s, 1, IF Len(s) < n THEN Len(s) ELSE n)

extract_layer_hash(layer_name, length) ==
    LET path == TrimEndStr(TrimEndStr(TrimEndStr(layer_name, LAYER_TAR), TAR_GZ), TAR)
        hash == LastSegment(path)
    IN  IF hash = EMPTY THEN None ELSE Some(Take(hash, length))

(***************************************************************************)
(* Inputs                                                                  *)
(***************************************************************************)
MaxItems == 3           \* stream items consumed in one run of Spec

LayerA == <<"a", "b", "c", "d", "e", "f", "g", "h">> \o LAYER_TAR
LayerB == <<"b">> \o TAR_GZ

MetaA == [mode |-> 448, uid |-> 1000, gid |-> 100]
MetaB == [mode |-> 420, uid |-> 0, gid |-> 50]

Item(bad, path, etype, meta, link) ==
    [bad |-> bad, path |-> path, etype |-> etype,
     mode |-> meta.mode, uid |-> meta.uid, gid |-> meta.gid, link |-> link]

PathA == <<"a">>
PathAB == <<"a", "/", "b">>
PathC == <<"c">>
\* a directory entry as tar writes it: a leading "./", a trailing "/"
DirAB == DOT_SLASH \o PathAB \o <<SLASH>>

WhA == WHITEOUT_PREFIX \o <<"a">>
WhAB == <<"a", "/">> \o WHITEOUT_PREFIX \o <<"b">>
WhC == WHITEOUT_PREFIX \o <<"c">>
OpqRoot == OPAQUE_WHITEOUT
OpqA == <<"a", "/">> \o OPAQUE_WHITEOUT
MarkerPaths == {WhA, WhAB, WhC, OpqRoot, OpqA}

LinkT == <<"t">>

\* the items a layer stream of Spec may yield
Items ==
    {Item("none", PathA, "Directory", m, None) : m \in {MetaA, MetaB}}
    \cup {Item("none", DirAB, "Directory", MetaB, None),
          Item("none", PathC, "Directory", MetaA, None)}
    \cup {Item("none", PathAB, "Regular", m, None) : m \in {MetaA, MetaB}}
    \cup {Item("none", PathA, "Regular", MetaB, None),
          Item("none", PathC, "Regular", MetaB, None)}
    \cup {Item("none", p, "Symlink", MetaB, Some(LinkT)) : p \in {PathAB, PathC}}
    \cup {Item("none", p, "Link", MetaB, Some(LinkT)) : p \in {PathA, PathAB}}
    \cup {Item("none", PathA, "Link", MetaA, None), Item("none", PathA, "Fifo", MetaA, None)}
    \cup {Item("none", p, "Regular", MetaA, None) : p \in MarkerPaths}
    \cup {Item("none", WhA, "Fifo", MetaA, None), Item("none", DOT, "Directory", MetaB, None)}
    \cup {Item(b, PathA, "Regular", MetaA, None) : b \in {"iter", "path", "mode", "uid", "gid"}}
    \cup {Item("link", PathAB, t, MetaA, Some(LinkT)) : t \in {"Symlink", "Link"}}

(***************************************************************************)
(* archive.rs, main.rs: the run                                            *)
(***************************************************************************)
NoError == [kind |-> "", what |-> EMPTY]

\* no direct call: the program runs from main
NoCall == [fn |-> "none", arg |-> EMPTY, out |-> <<>>]
Error(kind, what) == [kind |-> kind, what |-> what]

\* the path an entry's normalisation leaves
Normalized(e) == TrimEndChar(TrimStartStr(e.path, DOT_SLASH), SLASH)

\* the node path a content entry names
TargetPath(e) == Parts(Normalized(e))

IsContent(e) ==
    /\ e.bad = "none" \/ (e.bad = "link" /\ e.etype \in {"Directory", "Regular"})
    /\ e.etype \in {"Directory", "Regular", "Symlink", "Link"}
    /\ Normalized(e) /= EMPTY
    /\ ~is_whiteout(Normalized(e))

\* history: which layer's entry wrote each node last
Contributed(c, r, r2, e, layer) ==
    [q \in DOMAIN c \cup DOMAIN r2 |->
        IF (q \in DOMAIN r2 /\ q \notin DOMAIN r) \/ (IsContent(e) /\ q = TargetPath(e))
        THEN layer ELSE c[q]]

\* mutant: the tag is derived whether or not attribution was requested
BeginLayerAlwaysTagging ==
    /\ pc = "merge"
    /\ li < Len(layers)
    /\ IF layers[li + 1] \notin DOMAIN layer_paths
       THEN /\ pc' = "failed"
            /\ err' = Error("Layer not found in archive", layers[li + 1])
            /\ UNCHANGED layer_hash
       ELSE /\ pc' = "entries"
            /\ layer_hash' = extract_layer_hash(layers[li + 1], HashLen)
            /\ UNCHANGED err
    /\ ei' = 0
    /\ UNCHANGED <<call, outer, oi, manifest_bytes, layer_paths, scratch, layers, li, root,
                   show_layers, rendered, applied, prev, last, contrib, snaps>>

\* mutant: a layer whose blob is missing is passed over
BeginLayerSkippingMissing ==
    /\ pc = "merge"
    /\ li < Len(layers)
    /\ IF layers[li + 1] \notin DOMAIN layer_paths
       THEN /\ li' = li + 1
            /\ UNCHANGED <<pc, err, layer_hash>>
       ELSE /\ pc' = "entries"
            /\ layer_hash' = IF show_layers THEN extract_layer_hash(layers[li + 1], HashLen)
                             ELSE None
            /\ UNCHANGED <<err, li>>
    /\ ei' = 0
    /\ UNCHANGED <<call, outer, oi, manifest_bytes, layer_paths, scratch, layers, root,
                   show_layers, rendered, applied, prev, last, contrib, snaps>>

\* for layer_name in layers.iter(): look the blob up, derive the tag, open the stream
BeginLayer ==
    /\ pc = "merge"
    /\ li < Len(layers)
    /\ IF layers[li + 1] \notin DOMAIN layer_paths
       THEN /\ pc' = "failed"
            /\ err' = Error("Layer not found in archive", layers[li + 1])
            /\ UNCHANGED layer_hash
       ELSE /\ pc' = "entries"
            /\ layer_hash' = IF show_layers THEN extract_layer_hash(layers[li + 1], HashLen)
                             ELSE None
            /\ UNCHANGED err
    /\ ei' = 0
    /\ UNCHANGED <<call, outer, oi, manifest_bytes, layer_paths, scratch, layers, li, root,
                   show_layers, rendered, applied, prev, last, contrib, snaps>>

\* one iteration of the loop of process_layer_entries on the item e
Step(e) ==
    /\ root' = process_item(root, e, layer_hash)
    /\ prev' = root
    /\ last' = Some(e)
    /\ contrib' = Contributed(contrib, root, root', e, li + 1)
    /\ ei' = ei + 1
    /\ applied' = applied + 1
    /\ UNCHANGED <<call, outer, oi, manifest_bytes, layer_paths, scratch, layers, li,
                   layer_hash, pc, err, show_layers, rendered, snaps>>

\* the layer is done: apply_layer returns Ok(())
LayerDone ==
    /\ pc' = "merge"
    /\ li' = li + 1
    /\ snaps' = Append(snaps, root)
    /\ UNCHANGED <<call, outer, oi, manifest_bytes, layer_paths, scratch, layers,
                   layer_hash, ei, root, err, show_layers, rendered, applied,
                   prev, last, contrib>>

\* Spec: the layer stream yields e
StreamItem(e) ==
    /\ pc = "entries"
    /\ applied < MaxItems
    /\ Step(e)

\* Spec: the layer stream ends
StreamEnd ==
    /\ pc = "entries"
    /\ LayerDone

\* process_archive returns Ok(root) and main hands the tree to render_tree
Render ==
    /\ pc = "merge"
    /\ li = Len(layers)
    /\ pc' = "done"
    /\ rendered' = Some(root)
    /\ UNCHANGED <<call, outer, oi, manifest_bytes, layer_paths, scratch, layers, li,
                   layer_hash, ei, root, err, show_layers, applied, prev, last, contrib, snaps>>

TempTar(n) == <<n, TAR>>
TempTarGz(n) == <<n, TAR_GZ>>

\* Spec starts at archive.rs:81: two blobs are staged, the manifest names both, and
\* the layer streams are input read as the merge proceeds
Init ==
    /\ show_layers \in BOOLEAN
    /\ outer = <<>>
    /\ oi = 0
    /\ manifest_bytes = None
    /\ layer_paths = (LayerA :> TempTar(0)) @@ (LayerB :> TempTarGz(1))
    /\ scratch = <<>>
    /\ layers = <<LayerA, LayerB>>
    /\ li = 0
    /\ layer_hash = None
    /\ ei = 0
    /\ root = (<<>> :> new_dir(DefaultMode, 0, 0))
    /\ pc = "merge"
    /\ err = NoError
    /\ rendered = None
    /\ applied = 0
    /\ prev = root
    /\ last = None
    /\ contrib = (<<>> :> 0)
    /\ snaps = <<>>
    /\ call = NoCall

Next ==
    \/ BeginLayer
    \/ \E e \in Items : StreamItem(e)
    \/ StreamEnd
    \/ Render

Spec == Init /\ [][Next]_vars

\* SpecDot: the same merge, over streams whose entries name the layer root itself
\* ("./", ".", "./.") next to two ordinary entries
DotItems ==
    {Item("none", DOT_SLASH, "Directory", MetaA, None),
     Item("none", DOT, "Directory", MetaA, None),
     Item("none", DOT_SLASH, "Regular", MetaB, None),
     Item("none", DOT, "Regular", MetaB, None),
     Item("none", DOT, "Symlink", MetaB, Some(LinkT)),
     Item("none", DOT_SLASH \o DOT, "Link", MetaB, Some(LinkT)),
     Item("none", PathA, "Directory", MetaA, None),
     Item("none", PathAB, "Regular", MetaB, None)}

NextDot ==
    \/ BeginLayer
    \/ \E e \in DotItems : StreamItem(e)
    \/ StreamEnd
    \/ Render

SpecDot == Init /\ [][NextDot]_vars

\* SpecLink: the same merge, over streams whose hard links name paths that other
\* entries of the stream write, re-stamp and delete, and whose symlinks name "./a/b/"
\* and "t"
LinkItems ==
    {Item("none", PathAB, "Link", MetaB, Some(PathC)),
     Item("none", PathC, "Link", MetaA, Some(PathAB)),
     Item("none", PathC, "Regular", MetaB, None),
     Item("none", PathC, "Directory", MetaA, None),
     Item("none", PathC, "Symlink", MetaB, Some(DirAB)),
     Item("none", PathAB, "Symlink", MetaB, Some(LinkT)),
     Item("none", PathAB, "Regular", MetaA, None),
     Item("none", PathA, "Directory", MetaB, None),
     Item("none", WhC, "Regular", MetaA, None),
     Item("none", WhAB, "Regular", MetaA, None),
     Item("none", WhA, "Regular", MetaA, None)}

NextLink ==
    \/ BeginLayer
    \/ \E e \in LinkItems : StreamItem(e)
    \/ StreamEnd
    \/ Render

SpecLink == Init /\ [][NextLink]_vars

(***************************************************************************)
(* manifest.rs                                                             *)
(*                                                                         *)
(* The bytes of a file are what their readers make of them: json is what   *)
(* serde_json finds (array: the bytes are a JSON array of objects;         *)
(* entries: these objects, has_layers telling whether "Layers" is there    *)
(* as a list of strings), items is what the tar iterator yields.           *)
(***************************************************************************)
Bytes(json, items) == [json |-> json, items |-> items]

Json(array, entries) == [array |-> array, entries |-> entries]

ManifestEntry(has_layers, ls) == [has_layers |-> has_layers, Layers |-> ls]

\* mutant: an empty descriptor list resolves to no layers instead of failing
parse_manifest_default_on_empty(manifest_bytes_) ==
    LET j == manifest_bytes_.json
    IN  IF ~j.array \/ \E i \in 1..Len(j.entries) : ~j.entries[i].has_layers
        THEN [ok |-> FALSE, err |-> "Failed to parse manifest.json", layers |-> <<>>]
        ELSE IF j.entries = <<>>
        THEN [ok |-> TRUE, err |-> "", layers |-> <<>>]
        ELSE [ok |-> TRUE, err |-> "", layers |-> j.entries[1].Layers]

\* the result holds ok, the error's message and the layers of the first descriptor
parse_manifest(manifest_bytes_) ==
    LET j == manifest_bytes_.json
    IN  IF ~j.array \/ \E i \in 1..Len(j.entries) : ~j.entries[i].has_layers
        THEN [ok |-> FALSE, err |-> "Failed to parse manifest.json", layers |-> <<>>]
        ELSE IF j.entries = <<>>
        THEN [ok |-> FALSE, err |-> "Empty manifest", layers |-> <<>>]
        ELSE [ok |-> TRUE, err |-> "", layers |-> j.entries[1].Layers]

(***************************************************************************)
(* archive.rs: the first pass, and the merge over staged blobs (SpecRun)   *)
(***************************************************************************)
MANIFEST_JSON == <<"m", "a", "n", "i", "f", "e", "s", "t", ".", "j", "s", "o", "n">>

\* HashMap::insert
Put(m, k, v) == IF k \in DOMAIN m THEN [m EXCEPT ![k] = v] ELSE (k :> v) @@ m

\* an entry of the outer archive: ok is whether the iterator and path() succeed
OuterEntry(ok, path, bytes) == [ok |-> ok, path |-> path, bytes |-> bytes]

IsLayerPath(path_str) ==
    EndsWith(path_str, LAYER_TAR) \/ EndsWith(path_str, TAR) \/ EndsWith(path_str, TAR_GZ)

\* mutant: every blob is staged under the one temp name layer-0.tar
ExtractOneTempName ==
    /\ pc = "extract"
    /\ oi < Len(outer)
    /\ LET entry == outer[oi + 1]
           path_str == entry.path
           temp_path == <<0, TAR>>
       IN  IF ~entry.ok
           THEN /\ pc' = "failed"
                /\ err' = Error("Failed to read entry", EMPTY)
                /\ UNCHANGED <<manifest_bytes, layer_paths, scratch>>
           ELSE IF path_str = MANIFEST_JSON
           THEN /\ manifest_bytes' = Some(entry.bytes)
                /\ UNCHANGED <<pc, err, layer_paths, scratch>>
           ELSE IF IsLayerPath(path_str)
           THEN /\ scratch' = Put(scratch, temp_path, entry.bytes)
                /\ layer_paths' = Put(layer_paths, path_str, temp_path)
                /\ UNCHANGED <<pc, err, manifest_bytes>>
           ELSE UNCHANGED <<pc, err, manifest_bytes, layer_paths, scratch>>
    /\ oi' = oi + 1
    /\ UNCHANGED <<call, outer, layers, li, layer_hash, ei, root, show_layers, rendered, applied,
                   prev, last, contrib, snaps>>

\* one iteration of the first pass over the outer archive
Extract ==
    /\ pc = "extract"
    /\ oi < Len(outer)
    /\ LET entry == outer[oi + 1]
           path_str == entry.path
           extension == IF EndsWith(path_str, TAR_GZ) THEN TAR_GZ ELSE TAR
           temp_path == <<Cardinality(DOMAIN layer_paths), extension>>
       IN  IF ~entry.ok
           THEN /\ pc' = "failed"
                /\ err' = Error("Failed to read entry", EMPTY)
                /\ UNCHANGED <<manifest_bytes, layer_paths, scratch>>
           ELSE IF path_str = MANIFEST_JSON
           THEN /\ manifest_bytes' = Some(entry.bytes)
                /\ UNCHANGED <<pc, err, layer_paths, scratch>>
           ELSE IF IsLayerPath(path_str)
           THEN /\ scratch' = Put(scratch, temp_path, entry.bytes)
                /\ layer_paths' = Put(layer_paths, path_str, temp_path)
                /\ UNCHANGED <<pc, err, manifest_bytes>>
           ELSE UNCHANGED <<pc, err, manifest_bytes, layer_paths, scratch>>
    /\ oi' = oi + 1
    /\ UNCHANGED <<call, outer, layers, li, layer_hash, ei, root, show_layers, rendered, applied,
                   prev, last, contrib, snaps>>

\* after the first pass: the manifest must be there and resolve; the root is created
ResolveManifest ==
    /\ pc = "extract"
    /\ oi = Len(outer)
    /\ IF manifest_bytes = None
       THEN /\ pc' = "failed"
            /\ err' = Error("manifest.json not found in archive", MANIFEST_JSON)
            /\ UNCHANGED <<layers, root, prev, contrib>>
       ELSE IF ~parse_manifest(manifest_bytes[1]).ok
       THEN /\ pc' = "failed"
            /\ err' = Error(parse_manifest(manifest_bytes[1]).err, MANIFEST_JSON)
            /\ UNCHANGED <<layers, root, prev, contrib>>
       ELSE /\ pc' = "merge"
            /\ layers' = parse_manifest(manifest_bytes[1]).layers
            /\ root' = (<<>> :> new_dir(DefaultMode, 0, 0))
            /\ prev' = root'
            /\ contrib' = (<<>> :> 0)
            /\ UNCHANGED err
    /\ UNCHANGED <<call, outer, oi, manifest_bytes, layer_paths, scratch, li, layer_hash, ei,
                   show_layers, rendered, applied, last, snaps>>

\* the items the tar iterator yields for the layer being applied
Stream == scratch[layer_paths[layers[li + 1]]].items

\* SpecRun: the next item of the staged blob
ReadItem ==
    /\ pc = "entries"
    /\ ei < Len(Stream)
    /\ Step(Stream[ei + 1])

\* SpecRun: the staged blob is exhausted
ReadEnd ==
    /\ pc = "entries"
    /\ ei = Len(Stream)
    /\ LayerDone

NextRun ==
    \/ Extract
    \/ ResolveManifest
    \/ BeginLayer
    \/ ReadItem
    \/ ReadEnd
    \/ Render

\* the state main starts process_archive in, for the archive a
InitRun(a) ==
    /\ show_layers \in BOOLEAN
    /\ outer = a
    /\ oi = 0
    /\ manifest_bytes = None
    /\ layer_paths = <<>>
    /\ scratch = <<>>
    /\ layers = <<>>
    /\ li = 0
    /\ layer_hash = None
    /\ ei = 0
    /\ root = <<>>
    /\ pc = "extract"
    /\ err = NoError
    /\ rendered = None
    /\ applied = 0
    /\ prev = <<>>
    /\ last = None
    /\ contrib = <<>>
    /\ snaps = <<>>
    /\ call = NoCall

MaxOuter == 3           \* entries of the outer archive of SpecRun

LayerMissing == <<"x">> \o TAR
NotALayer == <<"c", ".", "j", "s", "o", "n">>
DotSlashManifest == DOT_SLASH \o MANIFEST_JSON

NoJson == Json(FALSE, <<>>)

\* the manifests of SpecRun
Manifests ==
    {NoJson,
     Json(TRUE, <<>>),
     Json(TRUE, <<ManifestEntry(FALSE, <<>>)>>),
     Json(TRUE, <<ManifestEntry(TRUE, <<>>)>>),
     Json(TRUE, <<ManifestEntry(TRUE, <<LayerA>>)>>),
     Json(TRUE, <<ManifestEntry(TRUE, <<LayerA, LayerB>>)>>),
     Json(TRUE, <<ManifestEntry(TRUE, <<LayerB, LayerA>>)>>),
     Json(TRUE, <<ManifestEntry(TRUE, <<LayerB>>), ManifestEntry(TRUE, <<LayerA>>)>>)}

\* the layer streams of SpecRun
StreamOne ==
    <<Item("none", PathA, "Directory", MetaA, None),
      Item("link", PathAB, "Link", MetaA, Some(LinkT)),
      Item("none", PathAB, "Regular", MetaB, None)>>
StreamTwo ==
    <<Item("none", WhAB, "Regular", MetaA, None),
      Item("iter", PathA, "Regular", MetaA, None),
      Item("mode", PathA, "Regular", MetaA, None),
      Item("none", PathC, "Symlink", MetaB, Some(LinkT))>>

RunEntries ==
    {OuterEntry(TRUE, MANIFEST_JSON, Bytes(j, <<>>)) : j \in Manifests}
    \cup {OuterEntry(TRUE, DotSlashManifest,
                     Bytes(Json(TRUE, <<ManifestEntry(TRUE, <<LayerA>>)>>), <<>>)),
          OuterEntry(TRUE, LayerA, Bytes(NoJson, StreamOne)),
          OuterEntry(TRUE, LayerB, Bytes(NoJson, StreamTwo)),
          OuterEntry(TRUE, LayerB, Bytes(NoJson, StreamOne)),
          OuterEntry(TRUE, NotALayer, Bytes(NoJson, StreamTwo)),
          OuterEntry(FALSE, LayerA, Bytes(NoJson, <<>>))}

SeqsUpTo(S, n) == UNION {[1..k -> S] : k \in 0..n}

SpecRun == (\E a \in SeqsUpTo(RunEntries, MaxOuter) : InitRun(a)) /\ [][NextRun]_vars

MaxReplay == 3          \* items of the layer of SpecReplay

\* the items the layer of SpecReplay is made of
ReplayItems ==
    {Item("none", PathA, "Directory", MetaA, None),
     Item("none", PathA, "Directory", MetaB, None),
     Item("none", PathAB, "Directory", MetaA, None),
     Item("none", PathA, "Regular", MetaB, None),
     Item("none", PathAB, "Regular", MetaA, None),
     Item("none", PathAB, "Symlink", MetaB, Some(LinkT)),
     Item("none", PathA, "Link", MetaB, Some(LinkT)),
     Item("none", PathA, "Fifo", MetaA, None),
     Item("none", WhA, "Regular", MetaA, None),
     Item("none", WhAB, "Regular", MetaA, None),
     Item("none", OpqA, "Regular", MetaA, None),
     Item("none", OpqRoot, "Regular", MetaA, None)}

\* the archive holding the one layer l, named twice by its manifest
ReplayArchive(l) ==
    <<OuterEntry(TRUE, LayerA, Bytes(NoJson, l)),
      OuterEntry(TRUE, MANIFEST_JSON,
                 Bytes(Json(TRUE, <<ManifestEntry(TRUE, <<LayerA, LayerA>>)>>), <<>>))>>

SpecReplay ==
    (\E l \in SeqsUpTo(ReplayItems, MaxReplay) : InitRun(ReplayArchive(l))) /\ [][NextRun]_vars

(***************************************************************************)
(* archive.rs: archives whose entry names repeat (SpecStaging)             *)
(*                                                                         *)
(* A tar archive may hold several entries of one name.  SpecStaging runs   *)
(* process_archive on archives made of two blobs named "b.tar.gz", one     *)
(* named "x.tar.gz" and two manifests.                                     *)
(***************************************************************************)
MaxStaged == 4          \* entries of the outer archive of SpecStaging

LayerX == <<"x">> \o TAR_GZ

StreamX == <<Item("none", PathC, "Directory", MetaA, None)>>

StagedEntries ==
    {OuterEntry(TRUE, LayerB, Bytes(NoJson, StreamOne)),
     OuterEntry(TRUE, LayerB, Bytes(NoJson, StreamTwo)),
     OuterEntry(TRUE, LayerX, Bytes(NoJson, StreamX)),
     OuterEntry(TRUE, MANIFEST_JSON, Bytes(Json(TRUE, <<ManifestEntry(TRUE, <<LayerB>>)>>), <<>>)),
     OuterEntry(TRUE, MANIFEST_JSON,
                Bytes(Json(TRUE, <<ManifestEntry(TRUE, <<LayerX, LayerB>>),
                                   ManifestEntry(TRUE, <<LayerB>>)>>), <<>>))}

SpecStaging ==
    (\E a \in SeqsUpTo(StagedEntries, MaxStaged) : InitRun(a)) /\ [][NextRun]_vars

(***************************************************************************)
(* utils.rs, whiteout.rs called directly (SpecPaths)                       *)
(*                                                                         *)
(* The path functions are pure; SpecPaths draws a path and calls them one  *)
(* after another, as the unit tests of both files do, collecting the       *)
(* results in call.out: split_path, is_whiteout, is_opaque,                *)
(* whiteout_target, opaque_dir.                                            *)
(***************************************************************************)
MaxTokens == 4          \* tokens a path of SpecPaths is made of

FOO == <<"f", "o", "o">>
BAR == <<"b", "a", "r">>
FILE == <<"f", "i", "l", "e">>

PathTokens == {<<SLASH>>, <<"a">>, DOT, WHITEOUT_PREFIX, OPAQUE_WHITEOUT, FOO, BAR, FILE}

RECURSIVE Flatten(_)
Flatten(ts) == IF ts = <<>> THEN <<>> ELSE Head(ts) \o Flatten(Tail(ts))

\* the variables of the run, at rest while functions are called directly
Idle ==
    /\ show_layers = FALSE
    /\ outer = <<>>
    /\ oi = 0
    /\ manifest_bytes = None
    /\ layer_paths = <<>>
    /\ scratch = <<>>
    /\ layers = <<>>
    /\ li = 0
    /\ layer_hash = None
    /\ ei = 0
    /\ err = NoError
    /\ rendered = None
    /\ last = None
    /\ contrib = <<>>
    /\ snaps = <<>>

idle_vars == <<outer, oi, manifest_bytes, layer_paths, scratch, layers, li, layer_hash, ei,
               err, show_layers, rendered, last, contrib, snaps>>

InitPaths(path) ==
    /\ Idle
    /\ pc = "paths"
    /\ root = <<>>
    /\ prev = <<>>
    /\ applied = 0
    /\ call = [fn |-> "paths", arg |-> path, out |-> <<>>]

\* the k-th call of the sequence adds its result
Returns(k, result) ==
    /\ pc = "paths"
    /\ Len(call.out) = k - 1
    /\ call' = [call EXCEPT !.out = Append(@, result)]
    /\ UNCHANGED <<idle_vars, pc, root, prev, applied>>

CallSplitPath == Returns(1, split_path(call.arg))
CallIsWhiteout == Returns(2, is_whiteout(call.arg))
CallIsOpaque == Returns(3, is_opaque(call.arg))
CallWhiteoutTarget == Returns(4, whiteout_target(call.arg))
CallOpaqueDir == Returns(5, opaque_dir(call.arg))

NextPaths ==
    \/ CallSplitPath
    \/ CallIsWhiteout
    \/ CallIsOpaque
    \/ CallWhiteoutTarget
    \/ CallOpaqueDir

SpecPaths ==
    (\E ts \in SeqsUpTo(PathTokens, MaxTokens) : InitPaths(Flatten(ts))) /\ [][NextPaths]_vars

(***************************************************************************)
(* tree.rs called directly (SpecTree)                                      *)
(*                                                                         *)
(* The public methods of Node, called in any order on a tree that starts   *)
(* as Node::new_dir(0o755, 0, 0); call holds the method, its path and,     *)
(* for set_hardlink_target, whether it returned Ok.                        *)
(***************************************************************************)
MaxCalls == 3           \* calls made in one behaviour of SpecTree

PathCD == <<"c", "/", "d">>

\* the paths nodes are written at, and the paths the other methods are called with
WritePaths == {PathA, PathAB, PathC}
TreePaths == WritePaths \cup {PathCD, DOT, EMPTY}

InitTree ==
    /\ Idle
    /\ pc = "tree"
    /\ root = (<<>> :> new_dir(DefaultMode, 0, 0))
    /\ prev = root
    /\ applied = 0
    /\ call = NoCall

\* a method was called with the path and left the tree r
Called(fn, path, r, out) ==
    /\ pc = "tree"
    /\ applied < MaxCalls
    /\ root' = r
    /\ prev' = root
    /\ applied' = applied + 1
    /\ call' = [fn |-> fn, arg |-> path, out |-> out]
    /\ UNCHANGED <<idle_vars, pc>>

CallEnsurePath(path) ==
    Called("ensure_path", path, ensure_path(root, path, MetaA.mode, MetaA.uid, MetaA.gid, None), <<>>)

CallPutFile(path) ==
    Called("put_file", path,
           put_file(root, path, MetaB.mode, MetaB.uid, MetaB.gid, FALSE, None, None), <<>>)

CallSetHardlinkTarget(path) ==
    Called("set_hardlink_target", path, set_hardlink_target(root, path, LinkT).root,
           <<set_hardlink_target(root, path, LinkT).ok>>)

CallRemove(path) == Called("remove", path, remove(root, path), <<>>)

CallMarkOpaque(path) == Called("mark_opaque", path, mark_opaque(root, path), <<>>)

NextTree ==
    \/ \E path \in WritePaths : CallEnsurePath(path)
    \/ \E path \in WritePaths : CallPutFile(path)
    \/ \E path \in TreePaths : CallSetHardlinkTarget(path)
    \/ \E path \in TreePaths : CallRemove(path)
    \/ \E path \in TreePaths : CallMarkOpaque(path)

SpecTree == InitTree /\ [][NextTree]_vars

\* SpecSegments: the same calls, on spellings of "a" and "a/b" with empty segments,
\* "." segments and trailing slashes
SegmentPaths ==
    {PathA, PathAB,
     <<"a", "/">>, <<"a", "/", ".">>, <<".", "/", "a">>,
     <<"a", "/", "b", "/">>, <<"a", "/", "/", "b">>, <<"a", "/", ".", "/", "b">>,
     <<"a", "/", "b", "/", ".">>}

NextSegments ==
    \/ \E path \in SegmentPaths : CallEnsurePath(path)
    \/ \E path \in SegmentPaths : CallPutFile(path)
    \/ \E path \in SegmentPaths : CallSetHardlinkTarget(path)
    \/ \E path \in SegmentPaths : CallRemove(path)
    \/ \E path \in SegmentPaths : CallMarkOpaque(path)

SpecSegments == InitTree /\ [][NextSegments]_vars

(***************************************************************************)
(* Properties of the merge (Spec)                                          *)
(***************************************************************************)
\* e was the item the merge loop consumed last, in the layer still open
Acted(e) == pc = "entries" /\ ei > 0 /\ last = Some(e)

\* e is a marker entry that apply_entry reaches the whiteout branch with
IsMarker(e) ==
    /\ e.bad \notin {"iter", "path", "mode", "uid", "gid"}
    /\ Normalized(e) /= EMPTY
    /\ StartsWith(LastSegment(Normalized(e)), WHITEOUT_PREFIX)

IsOpaqueMarker(e) == IsMarker(e) /\ LastSegment(Normalized(e)) = OPAQUE_WHITEOUT

IsPlainWhiteout(e) == IsMarker(e) /\ LastSegment(Normalized(e)) /= OPAQUE_WHITEOUT

\* the directory part of a marker's path, as a node path
MarkerDir(e) ==
    LET segs == Split(Normalized(e), SLASH)
    IN  SubSeq(segs, 1, Len(segs) - 1)

\* the node a plain whiteout names: the sibling whose basename follows ".wh."
WhiteoutNode(e) ==
    LET base == LastSegment(Normalized(e))
    IN  Append(MarkerDir(e), SubSeq(base, Len(WHITEOUT_PREFIX) + 1, Len(base)))

\* the kind discriminant of a node
Kind(n) == IF ~n.is_file THEN "Directory" ELSE IF n.is_symlink THEN "Symlink" ELSE "File"

\* the kind a content entry asks for
EntryKind(e) ==
    IF e.etype = "Directory" THEN "Directory"
    ELSE IF e.etype = "Symlink" THEN "Symlink" ELSE "File"

\* the File node an entry of kind Regular, Symlink or Link describes, under the tag lh
FileNodeOf(e, lh) ==
    [is_file |-> TRUE, is_symlink |-> e.etype = "Symlink",
     symlink_target |-> IF e.etype = "Symlink" THEN e.link ELSE None,
     hardlink_target |-> IF e.etype = "Link" THEN e.link ELSE None,
     mode |-> e.mode, uid |-> e.uid, gid |-> e.gid, layer_hash |-> lh]

\* C1: once a plain whiteout naming p (".wh." + p's basename, in p's parent directory)
\* has been applied to a tree holding p, the node at p and its whole subtree are gone;
\* and a path that is absent appears only through a content entry at or below it, so
\* p stays absent until an entry recreates it.
C1_WhiteoutDeletes ==
    \A e \in Items : Acted(e) =>
        /\ (IsPlainWhiteout(e) /\ WhiteoutNode(e) \in DOMAIN prev)
              => Subtree(root, WhiteoutNode(e)) = {}
        /\ \A p \in DOMAIN root \ DOMAIN prev : IsContent(e) /\ IsPrefix(p, TargetPath(e))

\* C1 witness: layer B's whiteout of "a" removed a directory and its child that layer A wrote
C1_Witness ==
    /\ Acted(Item("none", WhA, "Regular", MetaA, None))
    /\ show_layers /\ li = 1
    /\ {<<PathA>>, <<PathA, <<"b">>>>} \subseteq DOMAIN prev
    /\ prev[<<PathA>>].layer_hash = extract_layer_hash(LayerA, HashLen)
    /\ DOMAIN root \cap {<<PathA>>, <<PathA, <<"b">>>>} = {}

\* C2: an opaque marker of layer L for directory d hides every descendant of d that
\* only earlier layers contributed, and keeps every descendant of d that an entry of L
\* itself contributed, wherever that entry sits in L's stream.
C2_OpaqueKeepsOwnLayer ==
    \A e \in Items : (Acted(e) /\ IsOpaqueMarker(e)) =>
        \A p \in Below(prev, MarkerDir(e)) :
            /\ contrib[p] < li + 1 => p \notin DOMAIN root
            /\ contrib[p] = li + 1 => p \in DOMAIN root

\* C3: after a content entry is applied at p, the node at p has the entry's kind, mode,
\* uid and gid (last writer wins), also when p existed before.
C3_LastWriterWins ==
    \A e \in Items : (Acted(e) /\ IsContent(e)) =>
        /\ TargetPath(e) \in DOMAIN root
        /\ Kind(root[TargetPath(e)]) = EntryKind(e)
        /\ root[TargetPath(e)].mode = e.mode
        /\ root[TargetPath(e)].uid = e.uid
        /\ root[TargetPath(e)].gid = e.gid

\* C4: a Regular, Symlink or Hard-link entry applied at a path that holds a directory
\* leaves there the File node the entry describes, with no children and nothing of
\* the old node.
C4_DirToFile ==
    \A e \in Items :
        (/\ Acted(e) /\ IsContent(e) /\ e.etype \in {"Regular", "Symlink", "Link"}
         /\ TargetPath(e) \in DOMAIN prev
         /\ ~prev[TargetPath(e)].is_file)
        => /\ TargetPath(e) \in DOMAIN root
           /\ root[TargetPath(e)] = FileNodeOf(e, layer_hash)
           /\ Below(root, TargetPath(e)) = {}

\* C4 witness: directory "a" holding "a/b" was replaced by a regular file "a"
C4_Witness ==
    /\ Acted(Item("none", PathA, "Regular", MetaB, None))
    /\ {<<PathA>>, <<PathA, <<"b">>>>} \subseteq DOMAIN prev
    /\ ~prev[<<PathA>>].is_file
    /\ prev[<<PathA>>].mode = 448
    /\ root[<<PathA>>].is_file
    /\ root[<<PathA>>].mode = 420
    /\ <<PathA, <<"b">>>> \notin DOMAIN root

\* C5: only Directory nodes have children.
C5_OnlyDirsHaveChildren ==
    \A p \in DOMAIN root : root[p].is_file => Below(root, p) = {}
(***************************************************************************)
(* Properties of the run (SpecRun, SpecReplay)                             *)
(***************************************************************************)
\* C6: with the manifest naming the same layer twice, the tree after the second pass
\* equals the tree after the first pass (the tree of [L] alone), node for node.
C6_ReplayIdempotent ==
    pc = "done" => /\ Len(snaps) = 2
                   /\ snaps[2] = snaps[1]
                   /\ rendered = Some(snaps[1])

\* C6 witness: a three-item layer that left more than the root was replayed
C6_Witness ==
    /\ pc = "done"
    /\ applied = 6
    /\ Cardinality(DOMAIN root) >= 3
    /\ \E i \in 1..3 : IsMarker(outer[1].bytes.items[i])
\* the root alone: a Directory with no children
EmptyRootTree ==
    (<<>> :> [is_file |-> FALSE, is_symlink |-> FALSE, symlink_target |-> None,
              hardlink_target |-> None, mode |-> 493, uid |-> 0, gid |-> 0,
              layer_hash |-> None])

\* the manifest resolved
Resolved == pc \in {"merge", "entries", "done"} \/ (pc = "failed" /\ root /= <<>>)

\* C7: when the manifest resolves to zero layers the run succeeds and the tree handed
\* to the renderer is the root alone, a Directory without children.
C7_ZeroLayers ==
    (Resolved /\ layers = <<>>) =>
        /\ pc \in {"merge", "done"}
        /\ root = EmptyRootTree
        /\ err = NoError
        /\ pc = "done" => rendered = Some(EmptyRootTree)

\* C7 witness: a run over a manifest whose first descriptor lists no layers ended well
C7_Witness ==
    /\ pc = "done"
    /\ layers = <<>>
    /\ manifest_bytes = Some(Bytes(Json(TRUE, <<ManifestEntry(TRUE, <<>>)>>), <<>>))
    /\ rendered = Some(root)

\* the manifest bytes do not parse as a list of image descriptors
Unparsable(j) == ~j.array \/ \E i \in 1..Len(j.entries) : ~j.entries[i].has_layers

\* the first pass is over, with these manifest bytes buffered
Buffered(j) == oi = Len(outer) /\ manifest_bytes = Some(j) /\ err.kind /= "Failed to read entry"

Named(p) == {i \in 1..Len(outer) : outer[i].ok /\ outer[i].path = p}

AllReadable == \A i \in 1..Len(outer) : outer[i].ok

\* the first layer of the manifest that no outer entry with a layer suffix is named as
MissingLayers == {i \in 1..Len(layers) : Named(layers[i]) = {} \/ ~IsLayerPath(layers[i])}

FirstMissing == CHOOSE i \in MissingLayers : \A k \in MissingLayers : i <= k

\* C9: without an entry named exactly "manifest.json", or with a manifest layer that has
\* no staged blob under that exact name, the run fails naming what is missing and hands
\* no tree to the renderer, however many layers were merged before.
C9_MissingResourcesFatal ==
    /\ rendered /= None => pc = "done"
    /\ (AllReadable /\ Named(MANIFEST_JSON) = {}) =>
          /\ pc \in {"extract", "failed"}
          /\ rendered = None
          /\ pc = "failed" => err = Error("manifest.json not found in archive", MANIFEST_JSON)
    /\ (Resolved /\ MissingLayers /= {}) =>
          /\ pc /= "done"
          /\ rendered = None
          /\ li < FirstMissing
          /\ pc = "failed" => err = Error("Layer not found in archive", layers[FirstMissing])

\* C9 witness: the second layer's blob is missing and the run failed after merging the first
C9_Witness ==
    /\ pc = "failed"
    /\ layers = <<LayerA, LayerB>>
    /\ li = 1
    /\ Cardinality(DOMAIN root) = 3
    /\ err = Error("Layer not found in archive", LayerB)
    /\ rendered = None

\* reading or decoding the item fails in apply_entry or in the iterator
Undecodable(e) ==
    \/ e.bad \in {"iter", "path"}
    \/ e.bad \in {"mode", "uid", "gid"} /\ Normalized(e) /= EMPTY
    \/ /\ e.bad = "link"
       /\ e.etype \in {"Symlink", "Link"}
       /\ Normalized(e) /= EMPTY
       /\ ~StartsWith(LastSegment(Normalized(e)), WHITEOUT_PREFIX)

\* the items of the streams of the layers 1..n of the manifest
RECURSIVE ItemsOfLayers(_)
ItemsOfLayers(n) ==
    IF n = 0 THEN 0
    ELSE ItemsOfLayers(n - 1) + Len(scratch[layer_paths[layers[n]]].items)

\* C10: an item that cannot be read or decoded leaves the tree as it was; the loop goes
\* on, so a layer is left only with all its items consumed, and a run that has resolved
\* its manifest fails only on a missing blob, never on an item.
C10_FailureIsolation ==
    /\ \A i \in 1..Len(last) : Undecodable(last[i]) => root = prev
    /\ Resolved => \A k \in 1..li : k \notin MissingLayers
    /\ (Resolved /\ MissingLayers = {}) =>
          /\ pc /= "failed"
          /\ applied = ItemsOfLayers(li) + (IF pc = "entries" THEN ei ELSE 0)
          /\ pc = "done" => rendered = Some(root) /\ li = Len(layers)

\* C10 witness: the run ended well after a layer whose stream held a failing iterator
\* item and an unreadable mode, with the entry after them applied
C10_Witness ==
    /\ pc = "done"
    /\ layers = <<LayerA, LayerB>>
    /\ applied = 7
    /\ last = Some(Item("none", PathC, "Symlink", MetaB, Some(LinkT)))
    /\ <<PathC>> \in DOMAIN root
    /\ <<PathA, <<"b">>>> \notin DOMAIN root

\* the outer archive's entry paths are pairwise distinct
DistinctPaths == \A i, j \in 1..Len(outer) : outer[i].path = outer[j].path => i = j

\* the bytes of the one outer entry named p
BlobOf(p) == outer[CHOOSE i \in 1..Len(outer) : outer[i].path = p].bytes

\* the loop of process_layer_entries over a whole stream
RECURSIVE ApplyStream(_, _, _)
ApplyStream(r, items, lh) ==
    IF items = <<>> THEN r
    ELSE ApplyStream(process_item(r, Head(items), lh), Tail(items), lh)

\* the layer loop of process_archive over the blobs found by name
RECURSIVE MergeLayers(_, _)
MergeLayers(r, names) ==
    IF names = <<>> THEN r
    ELSE MergeLayers(ApplyStream(r, BlobOf(Head(names)).items,
                                 IF show_layers THEN extract_layer_hash(Head(names), HashLen)
                                 ELSE None),
                     Tail(names))

\* what the set of outer entries decides, whatever their order: whether the run fails
OrderFreeFailure ==
    \/ ~AllReadable
    \/ Named(MANIFEST_JSON) = {}
    \/ ~parse_manifest(BlobOf(MANIFEST_JSON)).ok
    \/ \E i \in 1..Len(parse_manifest(BlobOf(MANIFEST_JSON)).layers) :
          LET n == parse_manifest(BlobOf(MANIFEST_JSON)).layers[i]
          IN  Named(n) = {} \/ ~IsLayerPath(n)

\* ... and the tree it ends with when it does not
OrderFreeTree ==
    MergeLayers(<<>> :> new_dir(DefaultMode, 0, 0), parse_manifest(BlobOf(MANIFEST_JSON)).layers)

\* C12: with pairwise distinct entry paths the outcome of the run is a function of the
\* set of outer entries alone (the manifest's bytes and the blobs found by name), so
\* every physical order of the same entries ends with the same tree, or fails alike.
C12_OuterOrderIndependent ==
    DistinctPaths =>
        /\ pc = "done" => ~OrderFreeFailure /\ rendered = Some(OrderFreeTree)
        /\ pc = "failed" => OrderFreeFailure /\ rendered = None

\* C12 witness: the blobs lie in the archive against manifest order, the manifest last
C12_Witness ==
    /\ pc = "done"
    /\ Len(outer) = 3
    /\ outer[1].path = LayerB /\ outer[2].path = LayerA /\ outer[3].path = MANIFEST_JSON
    /\ layers = <<LayerA, LayerB>>
    /\ outer[1].bytes.items /= outer[2].bytes.items
    /\ Cardinality(DOMAIN root) >= 2

(***************************************************************************)
(* Properties of the path functions (SpecPaths)                            *)
(***************************************************************************)
NoSlash(s) == \A i \in 1..Len(s) : s[i] /= SLASH

\* s without its trailing slashes, said without the trimming function
Untrailed(s) ==
    LET n == CHOOSE k \in 0..Len(s) :
                 /\ k = 0 \/ s[k] /= SLASH
                 /\ \A i \in (k + 1)..Len(s) : s[i] = SLASH
    IN  SubSeq(s, 1, n)

\* the text after the last "/" of s, said without rfind
AfterLastSlash(s) ==
    LET k == CHOOSE j \in 0..Len(s) :
                 /\ j = 0 \/ s[j] = SLASH
                 /\ NoSlash(SubSeq(s, j + 1, Len(s)))
    IN  SubSeq(s, k + 1, Len(s))

\* C14: is_whiteout holds exactly when the basename starts with ".wh.", is_opaque
\* exactly when it equals ".wh..wh..opq", so opaque implies whiteout;
\* whiteout_target(d/.wh.n) = d/n and whiteout_target(.wh.n) = n;
\* opaque_dir(d/.wh..wh..opq) = d and opaque_dir(.wh..wh..opq) = "".
C14_WhiteoutClassifier ==
    (pc = "paths" /\ Len(call.out) = 5) =>
        LET p == call.arg
            base == AfterLastSlash(p)
            name == SubSeq(base, Len(WHITEOUT_PREFIX) + 1, Len(base))
            dir == SubSeq(p, 1, Len(p) - Len(base) - 1)
        IN  /\ call.out[2] = StartsWith(base, WHITEOUT_PREFIX)
            /\ call.out[3] = (base = OPAQUE_WHITEOUT)
            /\ call.out[3] => call.out[2]
            /\ (StartsWith(base, WHITEOUT_PREFIX) /\ dir /= EMPTY)
                  => call.out[4] = dir \o <<SLASH>> \o name
            /\ (StartsWith(base, WHITEOUT_PREFIX) /\ p = base) => call.out[4] = name
            /\ base = OPAQUE_WHITEOUT => call.out[5] = dir

\* C14 witness: "a/.wh.foo" is a whiteout that is not opaque, and names "a/foo"
C14_Witness ==
    /\ pc = "paths"
    /\ call.arg = <<"a", SLASH>> \o WHITEOUT_PREFIX \o FOO
    /\ Len(call.out) = 5
    /\ call.out[2] /\ ~call.out[3]
    /\ call.out[4] = <<"a", SLASH>> \o FOO

\* C15: split_path drops trailing slashes and splits at the last "/" that remains:
\* the basename holds no "/", and the pair is ("", path) when no "/" remains, else
\* parent + "/" + basename is the path without its trailing slashes.
C15_SplitPath ==
    (pc = "paths" /\ Len(call.out) >= 1) =>
        LET t == Untrailed(call.arg)
            parent == call.out[1][1]
            basename == call.out[1][2]
        IN  /\ NoSlash(basename)
            /\ IF NoSlash(t) THEN parent = EMPTY /\ basename = t
               ELSE parent \o <<SLASH>> \o basename = t
            /\ call.arg = FOO \o <<SLASH>> \o BAR \o <<SLASH>> => call.out[1] = <<FOO, BAR>>
            /\ call.arg = FILE => call.out[1] = <<EMPTY, FILE>>
            /\ call.arg = <<SLASH>> \o FILE => call.out[1] = <<EMPTY, FILE>>

\* C15 witness: "foo/bar/" was split into ("foo", "bar")
C15_Witness ==
    /\ pc = "paths"
    /\ call.arg = FOO \o <<SLASH>> \o BAR \o <<SLASH>>
    /\ Len(call.out) >= 1
    /\ call.out[1] = <<FOO, BAR>>

\* the tree the layer being applied started from
LayerStart == IF li = 0 THEN (<<>> :> new_dir(DefaultMode, 0, 0)) ELSE snaps[li]

\* C19: extraction is over before the first entry is applied; the layers are those of
\* the first descriptor, applied in the listed order, each occurrence once, the
\* entries of a layer in stream order and all of them before the next layer; the
\* stream applied for a layer is that of a blob stored under the layer's name, so
\* blobs the first descriptor does not name contribute nothing.
C19_LayerOrder ==
    /\ pc \in {"merge", "entries", "done"} =>
          /\ oi = Len(outer)
          /\ layers = manifest_bytes[1].json.entries[1].Layers
          /\ Len(snaps) = li
    /\ applied > 0 => pc \in {"merge", "entries", "done", "failed"} /\ oi = Len(outer)
    /\ pc = "entries" =>
          /\ li < Len(layers)
          /\ \E i \in Named(layers[li + 1]) : Stream = outer[i].bytes.items
          /\ ei > 0 => last = Some(Stream[ei])
          /\ applied = ItemsOfLayers(li) + ei
          /\ root = ApplyStream(LayerStart, SubSeq(Stream, 1, ei), layer_hash)
    /\ pc = "done" => li = Len(layers) /\ rendered = Some(LayerStart)

(***************************************************************************)
(* Hard links, ignored kinds, the root, attribution, frames (Spec)         *)
(***************************************************************************)
\* the node put_file writes for the path: the parent's components, then the basename
LeafOf(e) == Append(Parts(split_path(Normalized(e))[1]), split_path(Normalized(e))[2])

\* C11: a Hard-link entry that reaches the hard-link branch leaves at its path a File
\* node without children, carrying the entry's mode, uid and gid; the display string
\* is the entry's raw link name when it has one; the layer goes on, the run does not fail.
C11_HardLinkLeavesNode ==
    \A e \in Items :
        (Acted(e) /\ e.etype = "Link" /\ IsContent(e)) =>
            /\ LeafOf(e) \in DOMAIN root
            /\ root[LeafOf(e)] = FileNodeOf(e, layer_hash)
            /\ Below(root, LeafOf(e)) = {}
            /\ err = NoError

\* C11 witness: a hard link "a/b" -> "t" was applied where "a" was a regular file, so
\* the attachment walks through a File node; the node is there with its display string
C11_Witness ==
    /\ Acted(Item("none", PathAB, "Link", MetaB, Some(LinkT)))
    /\ <<PathA>> \in DOMAIN prev
    /\ prev[<<PathA>>].is_file
    /\ <<PathA, <<"b">>>> \notin DOMAIN prev
    /\ root[<<PathA, <<"b">>>>].hardlink_target = Some(LinkT)

\* C13: an entry whose kind is none of Directory, Regular, Symlink and Hard link leaves
\* the tree as it was, whatever path it carries (a reserved basename included).
C13_OtherKindsIgnored ==
    \A e \in Items :
        (Acted(e) /\ e.etype \notin {"Directory", "Regular", "Symlink", "Link"}) => root = prev

\* the parent of a node path
ParentOf(p) == SubSeq(p, 1, Len(p) - 1)

\* C16: there is one root, created empty before the first layer; whatever entries are
\* applied, the root stays the Directory it was created as, with its mode, uid, gid
\* and (absent) tag, and every other node hangs below it.
C16_RootInvariant ==
    /\ <<>> \in DOMAIN root
    /\ root[<<>>] = new_dir(DefaultMode, 0, 0)
    /\ applied = 0 => DOMAIN root = {<<>>}
    /\ \A p \in DOMAIN root : p /= <<>> => ParentOf(p) \in DOMAIN root

\* C16 witness: with attribution on, a Directory entry "." of the second layer was
\* applied to a tree that an opaque marker at top level had emptied before
C16_Witness ==
    /\ Acted(Item("none", DOT, "Directory", MetaB, None))
    /\ show_layers /\ li = 1
    /\ Len(snaps) = 1 /\ DOMAIN snaps[1] = {<<>>}
    /\ applied = 3
    /\ DOMAIN root = {<<>>}

\* C17: with attribution enabled, a node a content entry creates or replaces carries
\* the tag of the entry's layer right afterwards, and a node that stays in the tree
\* and is not the entry's own target keeps the tag it had, also when the entry adds,
\* replaces or deletes a path beneath it.
C17_LayerAttribution ==
    show_layers =>
        \A e \in Items : Acted(e) =>
            /\ \A p \in DOMAIN root \ DOMAIN prev : root[p].layer_hash = layer_hash
            /\ (IsContent(e) /\ e.etype /= "Directory")
                  => root[LeafOf(e)].layer_hash = layer_hash
            /\ \A p \in DOMAIN root \cap DOMAIN prev :
                  (IsContent(e) => p /= TargetPath(e))
                      => root[p].layer_hash = prev[p].layer_hash

\* the node path an entry is about: the node a plain whiteout names, the directory of
\* an opaque marker, the path of any other entry
FramePath(e) ==
    IF IsPlainWhiteout(e) THEN WhiteoutNode(e)
    ELSE IF IsOpaqueMarker(e) THEN MarkerDir(e)
    ELSE TargetPath(e)

Related(q, p) == IsPrefix(q, p) \/ IsPrefix(p, q)

\* C18: one entry about the path p leaves every node that is neither p, nor an
\* ancestor of p, nor a descendant of p as it was: still there, the same record, and
\* no node appears or disappears away from p.
C18_Frame ==
    \A e \in Items : Acted(e) =>
        /\ \A q \in DOMAIN prev :
              ~Related(q, FramePath(e)) => q \in DOMAIN root /\ root[q] = prev[q]
        /\ \A q \in DOMAIN root \ DOMAIN prev : Related(q, FramePath(e))

\* C18 witness: the whiteout of "a" removed "a" and "a/b" and left the directory "c" alone
C18_Witness ==
    /\ Acted(Item("none", WhA, "Regular", MetaA, None))
    /\ {<<PathA>>, <<PathA, <<"b">>>>, <<PathC>>} \subseteq DOMAIN prev
    /\ DOMAIN root = {<<>>, <<PathC>>}
    /\ root[<<PathC>>] = prev[<<PathC>>]

\* C23: when a content entry is applied at p, a proper ancestor of p that was missing
\* is now a Directory with the entry's mode, uid and gid for a Directory entry and
\* with 0755, 0, 0 for a Regular, Symlink or Hard-link entry; an ancestor that was
\* there keeps its kind, mode, uid and gid, and its subtrees away from p.
C23_ParentSynthesis ==
    \A e \in Items : (Acted(e) /\ IsContent(e)) =>
        \A k \in 1..(Len(TargetPath(e)) - 1) :
            LET q == SubSeq(TargetPath(e), 1, k)
                made == IF e.etype = "Directory" THEN new_dir(e.mode, e.uid, e.gid)
                        ELSE new_dir(DefaultMode, 0, 0)
            IN  /\ q \in DOMAIN root
                /\ q \notin DOMAIN prev => root[q] = [made EXCEPT !.layer_hash = layer_hash]
                /\ q \in DOMAIN prev =>
                      /\ root[q] = [prev[q] EXCEPT !.layer_hash = layer_hash]
                      /\ \A c \in Below(prev, q) :
                            ~Related(c, TargetPath(e)) => c \in DOMAIN root /\ root[c] = prev[c]

\* C23 witness: the Directory entry "./a/b/" (mode 0644, uid 0, gid 50) of the second
\* layer was applied to a tree without "a", and "a" was made with the entry's values
C23_Witness ==
    /\ Acted(Item("none", DirAB, "Directory", MetaB, None))
    /\ li = 1
    /\ <<PathC>> \in DOMAIN prev
    /\ <<PathA>> \notin DOMAIN prev
    /\ root[<<PathA>>] = [new_dir(420, 0, 50) EXCEPT !.layer_hash = layer_hash]
    /\ root[<<PathA, <<"b">>>>].mode = 420

\* C26: a plain whiteout or an opaque marker only deletes: no node appears, every node
\* that is left is the record it was, and no node of any tree has a basename that
\* starts with ".wh.", whether or not the marker's target or directory is there.
C26_MarkersOnlyDelete ==
    /\ \A e \in Items : (Acted(e) /\ IsMarker(e)) =>
          /\ DOMAIN root \subseteq DOMAIN prev
          /\ \A q \in DOMAIN root : root[q] = prev[q]
    /\ \A q \in DOMAIN root :
          q /= <<>> => ~StartsWith(q[Len(q)], WHITEOUT_PREFIX)

\* C26 witness: the whiteout "a/.wh.b" was applied to a tree that holds "c" and no
\* "a", and the tree is as it was
C26_Witness ==
    /\ Acted(Item("none", WhAB, "Regular", MetaA, None))
    /\ <<PathA>> \notin DOMAIN prev
    /\ <<PathC>> \in DOMAIN prev
    /\ root = prev

\* C27: when layer attribution is not requested no node carries a layer tag: not in
\* the tree under construction, the root included, not in the tree as any layer left
\* it, not in the tree handed to the renderer.
C27_AttributionOff ==
    ~show_layers =>
        /\ layer_hash = None
        /\ \A q \in DOMAIN root : root[q].layer_hash = None
        /\ \A i \in 1..Len(snaps) : \A q \in DOMAIN snaps[i] : snaps[i][q].layer_hash = None
        /\ rendered /= None => \A q \in DOMAIN rendered[1] : rendered[1][q].layer_hash = None

\* C27 witness: without attribution both layers were merged, the second wrote the
\* file "a/b" under a directory it made, and the tree was rendered
C27_Witness ==
    /\ ~show_layers
    /\ pc = "done"
    /\ li = 2
    /\ rendered = Some(root)
    /\ <<PathA>> \notin DOMAIN snaps[1]
    /\ <<PathC>> \in DOMAIN snaps[1]
    /\ <<PathA, <<"b">>>> \in DOMAIN root
    /\ Kind(root[<<PathA, <<"b">>>>]) = "File"

(***************************************************************************)
(* Properties of the tree primitives (SpecTree)                            *)
(***************************************************************************)
\* the call just made was fn on a path that named no node of the tree
CalledOnAbsent(fn) == pc = "tree" /\ call.fn = fn /\ Parts(call.arg) \notin DOMAIN prev

\* C20: remove on a path that is absent (or whose parent chain is absent) and
\* mark_opaque on a directory that is absent leave the tree as it was;
\* set_hardlink_target on an absent path returns Err and leaves the tree as it was,
\* and on a present path changes only that node's hard-link display string.
C20_PrimitiveNoOps ==
    /\ CalledOnAbsent("remove") => root = prev
    /\ CalledOnAbsent("mark_opaque") => root = prev
    /\ CalledOnAbsent("set_hardlink_target") => call.out = <<FALSE>> /\ root = prev
    /\ (pc = "tree" /\ call.fn = "set_hardlink_target"
          /\ Parts(call.arg) \in DOMAIN prev /\ Parts(call.arg) /= <<>>)
         => /\ call.out = <<TRUE>>
            /\ root = [prev EXCEPT ![Parts(call.arg)].hardlink_target = Some(LinkT)]

\* C20 witness: mark_opaque was called for "c/d" on a tree holding "a" and "a/b" only
C20_Witness ==
    /\ pc = "tree"
    /\ call.fn = "mark_opaque"
    /\ call.arg = PathCD
    /\ DOMAIN prev = {<<>>, <<PathA>>, <<PathA, <<"b">>>>}
    /\ root = prev

(***************************************************************************)
(* Properties of path spellings (SpecSegments)                             *)
(***************************************************************************)
\* the segments of a path joined by single slashes
RECURSIVE JoinParts(_)
JoinParts(parts) ==
    IF parts = <<>> THEN EMPTY
    ELSE IF Len(parts) = 1 THEN parts[1]
    ELSE JoinSlash(parts[1], JoinParts(Tail(parts)))

\* the path without its empty segments, "." segments and trailing slash
Canonical(path) == JoinParts(Parts(path))

\* the tree a method leaves when called as SpecTree calls it
MethodResult(fn, r, path) ==
    CASE fn = "ensure_path" -> ensure_path(r, path, MetaA.mode, MetaA.uid, MetaA.gid, None)
      [] fn = "put_file" ->
            put_file(r, path, MetaB.mode, MetaB.uid, MetaB.gid, FALSE, None, None)
      [] fn = "set_hardlink_target" -> set_hardlink_target(r, path, LinkT).root
      [] fn = "remove" -> remove(r, path)
      [] fn = "mark_opaque" -> mark_opaque(r, path)
      [] OTHER -> r

\* C21: a method called with a path leaves the tree it leaves when called with the
\* same path spelled without empty segments, "." segments and trailing slash, and no
\* node of the tree has the basename "" or ".".
C21_SegmentInsensitive ==
    (pc = "tree" /\ call.fn /= "none") =>
        /\ root = MethodResult(call.fn, prev, Canonical(call.arg))
        /\ \A q \in DOMAIN root : q /= <<>> => q[Len(q)] \notin {EMPTY, DOT}

(***************************************************************************)
(* Properties of entries naming the layer root (SpecDot)                   *)
(***************************************************************************)
\* C22: an entry whose path, after losing one leading "./" and a trailing "/", is
\* empty or "." is dropped: the tree stays as it was, whatever the entry's kind.
C22_RootEntriesDropped ==
    \A e \in DotItems :
        LET unprefixed == IF StartsWith(e.path, DOT_SLASH)
                          THEN SubSeq(e.path, Len(DOT_SLASH) + 1, Len(e.path)) ELSE e.path
            named == IF EndsWith(unprefixed, <<SLASH>>)
                     THEN SubSeq(unprefixed, 1, Len(unprefixed) - 1) ELSE unprefixed
        IN  (Acted(e) /\ named \in {EMPTY, DOT}) => root = prev

(***************************************************************************)
(* Properties of hard links whose names are paths of the tree (SpecLink)   *)
(***************************************************************************)
\* C24: a Hard-link entry at p naming t writes its string at p whether or not there is
\* a node at t, and neither makes nor changes a node at t; afterwards an entry about t
\* leaves the node at p as it was and an entry about p leaves the node at t as it
\* was; the string at p stays until an entry writes p or p is deleted.
C24_HardLinkTextDisplayOnly ==
    \A e \in LinkItems : Acted(e) =>
        /\ (e.etype = "Link" /\ IsContent(e)) =>
              LET p == TargetPath(e)
                  t == Parts(e.link[1])
              IN  /\ p \in DOMAIN root
                  /\ root[p].hardlink_target = e.link
                  /\ Kind(root[p]) = "File"
                  /\ IF t \in DOMAIN prev THEN t \in DOMAIN root /\ root[t] = prev[t]
                     ELSE t \notin DOMAIN root
        /\ \A q \in DOMAIN prev : prev[q].hardlink_target /= None =>
              LET t == Parts(prev[q].hardlink_target[1])
              IN  /\ (Related(FramePath(e), t) /\ ~Related(FramePath(e), q))
                        => q \in DOMAIN root /\ root[q] = prev[q]
                  /\ (Related(FramePath(e), q) /\ ~Related(FramePath(e), t))
                        => IF t \in DOMAIN prev THEN t \in DOMAIN root /\ root[t] = prev[t]
                           ELSE t \notin DOMAIN root
                  /\ IF q \in DOMAIN root
                     THEN root[q].hardlink_target /= prev[q].hardlink_target
                              => IsContent(e) /\ TargetPath(e) = q
                     ELSE IsPrefix(FramePath(e), q)

\* C24 witness: "a/b" is a hard link naming "c"; the whiteout of "c" deleted the node
\* at "c" and the node at "a/b" still shows the name
C24_Witness ==
    /\ Acted(Item("none", WhC, "Regular", MetaA, None))
    /\ <<PathC>> \in DOMAIN prev
    /\ <<PathC>> \notin DOMAIN root
    /\ <<PathA, <<"b">>>> \in DOMAIN root
    /\ root[<<PathA, <<"b">>>>].hardlink_target = Some(PathC)
    /\ root[<<PathA, <<"b">>>>] = prev[<<PathA, <<"b">>>>]

\* C25: in every tree a node flagged symlink is a File, only a symlink node has a
\* symlink string, and a Directory has neither a symlink string nor a hard-link
\* string; a Symlink entry leaves its link name, as the entry gives it, at its path,
\* a Regular entry leaves a File with neither string, and the symlink string of
\* every other node stays as it was (none on a node the entry made).
C25_LinkMetadata ==
    /\ \A q \in DOMAIN root :
          /\ root[q].is_symlink => root[q].is_file
          /\ root[q].symlink_target /= None => root[q].is_symlink
          /\ ~root[q].is_file =>
                root[q].symlink_target = None /\ root[q].hardlink_target = None
    /\ \A e \in LinkItems : (Acted(e) /\ IsContent(e)) =>
          LET p == TargetPath(e)
              writes == e.etype \in {"Regular", "Symlink", "Link"}
          IN  /\ e.etype = "Symlink" =>
                    Kind(root[p]) = "Symlink" /\ root[p].symlink_target = e.link
              /\ e.etype = "Regular" =>
                    /\ Kind(root[p]) = "File"
                    /\ root[p].symlink_target = None
                    /\ root[p].hardlink_target = None
              /\ \A q \in DOMAIN root : ~(writes /\ q = p) =>
                    root[q].symlink_target =
                        (IF q \in DOMAIN prev THEN prev[q].symlink_target ELSE None)
    /\ \A e \in LinkItems : (Acted(e) /\ ~IsContent(e)) =>
          \A q \in DOMAIN root :
              q \in DOMAIN prev /\ root[q].symlink_target = prev[q].symlink_target

\* C25 witness: "c" is the symlink that the entry naming "./a/b/" wrote; the entry
\* applied last made "a/b" a symlink naming "t" and left "c" with its name
C25_Witness ==
    /\ Acted(Item("none", PathAB, "Symlink", MetaB, Some(LinkT)))
    /\ <<PathC>> \in DOMAIN prev
    /\ prev[<<PathC>>].symlink_target = Some(DirAB)
    /\ root[<<PathC>>].symlink_target = Some(DirAB)
    /\ root[<<PathA, <<"b">>>>].symlink_target = Some(LinkT)
    /\ ~root[<<PathA>>].is_file

====
